---- MODULE Spec2Model ----
(***************************************************************************)
(* A model of aide_predict/utils/data_structures.py: ProteinSequence,      *)
(* ProteinSequences (in memory) and ProteinSequencesOnFile (indexed FASTA   *)
(* file).  Text is modelled character by character: a string is a sequence  *)
(* of one-character strings, a file is the sequence of its characters.      *)
(* An optional value is a sequence of length 0 (None) or 1 (the value).     *)
(***************************************************************************)
EXTENDS Integers, Sequences, FiniteSets, TLC

VARIABLES file, onfile, seqs, work, mapping, op, arg, res, mafft_calls, iters

vars == <<file, onfile, seqs, work, mapping, op, arg, res, mafft_calls, iters>>

\* ---------------------------------------------------------------- bounds
MaxLines == 3
MaxLineLen == 1
MaxBatch == 2
MaxSeqs == 2
MaxSeqLen == 3

\* ---------------------------------------------------------------- text
NL == "\n"
CR == "\r"
GAP == "-"
Residues == {"A", "C"}
Symbols == Residues \cup {GAP}
GAP_CHARACTERS == {GAP}
Whitespace == {" ", NL, CR}
Ids == {<<"a">>, <<"b">>, <<"c">>}
AbsentId == <<"z">>

None == <<>>
Some(x) == <<x>>

Min(a, b) == IF a < b THEN a ELSE b

SeqsUpTo(S, n) == UNION {[1..k -> S] : k \in 0..n}

RECURSIVE Concat(_)
Concat(ss) == IF ss = <<>> THEN <<>> ELSE Head(ss) \o Concat(Tail(ss))

\* s[a:b] of Python for 0 <= a, 0 <= b (clipped to the length)
Slice(s, a, b) ==
  LET hi == Min(b, Len(s))
  IN  IF a >= hi THEN <<>> ELSE [k \in 1..(hi - a) |-> s[a + k]]

\* str.strip(): whitespace removed at both ends
RECURSIVE LStrip(_)
LStrip(s) == IF s # <<>> /\ Head(s) \in Whitespace THEN LStrip(Tail(s)) ELSE s

RECURSIVE RStrip(_)
RStrip(s) ==
  IF s # <<>> /\ s[Len(s)] \in Whitespace THEN RStrip(SubSeq(s, 1, Len(s) - 1)) ELSE s

Strip(s) == RStrip(LStrip(s))

\* ''.join(s.split()): every whitespace character removed
NoWhitespace(s) == SelectSeq(s, LAMBDA c : c \notin Whitespace)

\* s.split()[0]: the first whitespace-delimited token (s holds one)
RECURSIVE TakeToken(_)
TakeToken(s) ==
  IF s = <<>> \/ Head(s) \in Whitespace THEN <<>> ELSE <<Head(s)>> \o TakeToken(Tail(s))

FirstToken(s) == TakeToken(LStrip(s))

\* open(path, 'r'): what reading the stored characters yields in text mode,
\* every "\r\n" and every lone "\r" coming out as "\n"
RECURSIVE TextDecode(_)
TextDecode(b) ==
  IF b = <<>> THEN <<>>
  ELSE IF Head(b) = CR
       THEN IF Len(b) >= 2 /\ b[2] = NL
            THEN <<NL>> \o TextDecode(SubSeq(b, 3, Len(b)))
            ELSE <<NL>> \o TextDecode(Tail(b))
       ELSE <<Head(b)>> \o TextDecode(Tail(b))

\* the lines of a text, each with its terminating newline
RECURSIVE SplitLines(_)
SplitLines(t) ==
  IF t = <<>> THEN <<>>
  ELSE LET n == IF \E i \in 1..Len(t) : t[i] = NL
                THEN CHOOSE i \in 1..Len(t) : t[i] = NL /\ \A j \in 1..(i - 1) : t[j] # NL
                ELSE Len(t)
       IN  <<SubSeq(t, 1, n)>> \o SplitLines(SubSeq(t, n + 1, Len(t)))

\* iteration over a file opened in text mode
FileLines(f) == SplitLines(TextDecode(f))

\* f.seek(start); f.read(length) on a file opened in text mode
ReadText(f, start, length) == Slice(TextDecode(Slice(f, start, Len(f))), 0, length)

StartsWithMarker(line) == line # <<>> /\ Head(line) = ">"

\* ---------------------------------------------------------------- ProteinSequence
ProteinSequence(s, id, structure) == [seq |-> s, id |-> id, structure |-> structure]

SeqHasGaps(p) == \E i \in 1..Len(p.seq) : p.seq[i] \in GAP_CHARACTERS

NumGaps(p) == Cardinality({i \in 1..Len(p.seq) : p.seq[i] \in GAP_CHARACTERS})

BaseLength(p) == Len(p.seq) - NumGaps(p)

SeqWithNoGaps(p) ==
  ProteinSequence(SelectSeq(p.seq, LAMBDA c : c \notin GAP_CHARACTERS), p.id, p.structure)

\* ---------------------------------------------------------------- ProteinSequences
Range(s) == {s[i] : i \in 1..Len(s)}

\* (mutant) the lengths compared leave the gaps out
Aligned_BaseLength(c) == Cardinality({Len(p.seq) - NumGaps(p) : p \in Range(c)}) = 1

Aligned(c) == Cardinality({Len(p.seq) : p \in Range(c)}) = 1

FixedLength(c) == Cardinality({BaseLength(p) : p \in Range(c)}) = 1

Width(c) == IF Aligned(c) THEN Some(Len(c[1].seq)) ELSE None

HasGaps(c) == \E p \in Range(c) : SeqHasGaps(p)

\* ---------------------------------------------------------------- FASTA reading
\* read_fasta: header lines give the identifier token, the content lines up to
\* the next header are concatenated with their whitespace removed
RECURSIVE ReadFastaLines(_, _, _)
ReadFastaLines(lines, cur, acc) ==
  IF lines = <<>>
  THEN IF cur = None THEN <<>> ELSE <<[id |-> cur[1], seq |-> acc]>>
  ELSE LET line == Head(lines)
       IN  IF StartsWithMarker(line)
           THEN (IF cur = None THEN <<>> ELSE <<[id |-> cur[1], seq |-> acc]>>)
                \o ReadFastaLines(Tail(lines), Some(FirstToken(Tail(line))), <<>>)
           ELSE ReadFastaLines(Tail(lines), cur, acc \o NoWhitespace(line))

read_fasta(f) == ReadFastaLines(FileLines(f), None, <<>>)

from_fasta(f) ==
  LET recs == read_fasta(f)
  IN  [k \in 1..Len(recs) |-> ProteinSequence(recs[k].seq, Some(recs[k].id), None)]

\* ProteinSequencesOnFile.__iter__ run to its end: one member per record read
OnFileIter(f) ==
  LET recs == read_fasta(f)
  IN  [k \in 1..Len(recs) |-> ProteinSequence(recs[k].seq, Some(recs[k].id), None)]

\* ProteinSequences(list(self))
to_memory(f) == OnFileIter(f)

\* ---------------------------------------------------------------- the file index
EmptyIndex == [keys |-> <<>>, info |-> <<>>]

InIndex(idx, id) == \E k \in 1..Len(idx.keys) : idx.keys[k] = id

KeyPos(idx, id) == CHOOSE k \in 1..Len(idx.keys) : idx.keys[k] = id

\* self._index[id] = entry: a new key goes last, an existing key keeps its place
IndexPut(idx, id, entry) ==
  IF InIndex(idx, id)
  THEN [idx EXCEPT !.info[KeyPos(idx, id)] = entry]
  ELSE [keys |-> Append(idx.keys, id), info |-> Append(idx.info, entry)]

IndexGet(idx, id) == idx.info[KeyPos(idx, id)]

ScanStart ==
  [current_id |-> None, seq_start |-> 0, seq_length |-> 0, has_gaps |-> FALSE,
   base_length |-> 0, file_pos |-> 0, index |-> EmptyIndex]

ScanEntry(st) ==
  [start |-> st.seq_start, length |-> st.seq_length,
   has_gaps |-> st.has_gaps, base_length |-> st.base_length]

ScanFlush(st) ==
  IF st.current_id # None THEN IndexPut(st.index, st.current_id[1], ScanEntry(st)) ELSE st.index

\* one turn of the loop of _create_index
ScanLine(st, line) ==
  IF StartsWithMarker(line)
  THEN [current_id |-> Some(FirstToken(Strip(Tail(line)))),
        seq_start |-> st.file_pos + Len(line),
        seq_length |-> 0, has_gaps |-> FALSE, base_length |-> 0,
        file_pos |-> st.file_pos + Len(line),
        index |-> ScanFlush(st)]
  ELSE LET s == Strip(line)
       IN  [st EXCEPT !.seq_length = @ + Len(s),
                      !.has_gaps = @ \/ (\E i \in 1..Len(s) : s[i] = "-"),
                      !.base_length = @ + Len(SelectSeq(s, LAMBDA c : c # "-")),
                      !.file_pos = @ + Len(line)]

RECURSIVE ScanLines(_, _)
ScanLines(st, lines) ==
  IF lines = <<>> THEN st ELSE ScanLines(ScanLine(st, Head(lines)), Tail(lines))

_create_index(f) == ScanFlush(ScanLines(ScanStart, FileLines(f)))

_compute_global_properties(idx) ==
  LET lengths == {idx.info[k].length : k \in 1..Len(idx.info)}
      base_lengths == {idx.info[k].base_length : k \in 1..Len(idx.info)}
      aligned == Cardinality(lengths) = 1
  IN  [aligned |-> aligned,
       fixed_length |-> Cardinality(base_lengths) = 1,
       width |-> IF aligned THEN Some(CHOOSE l \in lengths : TRUE) ELSE None,
       has_gaps |-> \E k \in 1..Len(idx.info) : idx.info[k].has_gaps]

\* ProteinSequencesOnFile(file_path)
OnFileInit(f) ==
  LET idx == _create_index(f)
  IN  [index |-> idx, props |-> _compute_global_properties(idx), data |-> <<>>]

OnFileLen(o) == Len(o.index.keys)

Ok(v) == [err |-> "none", val |-> v]
Raise(e, m) == [err |-> e, msg |-> m]

\* (mutant) an absent identifier yields an empty member instead of failing
ReadMember_NoKeyCheck(o, f, id) ==
  IF ~InIndex(o.index, id)
  THEN [err |-> "none", val |-> ProteinSequence(<<>>, Some(id), None)]
  ELSE LET info == IndexGet(o.index, id)
       IN  [err |-> "none",
            val |-> ProteinSequence(
                      NoWhitespace(ReadText(f, info.start, info.length)),
                      Some(id), None)]

\* the tail of __getitem__: seek to the start, read `length` characters
ReadMember(o, f, id) ==
  IF ~InIndex(o.index, id)
  THEN Raise("KeyError", "Sequence ID not found")
  ELSE LET info == IndexGet(o.index, id)
       IN  Ok(ProteinSequence(
                NoWhitespace(ReadText(f, info.start, info.length)),
                Some(id), None))

OnFileGetItemInt(o, f, i) ==
  IF i < 0 \/ i >= OnFileLen(o)
  THEN Raise("IndexError", "Index out of range")
  ELSE ReadMember(o, f, o.index.keys[i + 1])

OnFileGetItemId(o, f, id) == ReadMember(o, f, id)

\* ---------------------------------------------------------------- iter_batches
\* range(0, n, step) for step >= 1
BatchStarts(n, step) == {i \in 0..(n - 1) : i % step = 0}

\* (mutant) the final, shorter batch is dropped
NumBatches_Floor(n, step) == n \div step

NumBatches(n, step) == Cardinality(BatchStarts(n, step))

IterBatches(c, batch_size) ==
  [b \in 1..NumBatches(Len(c), batch_size) |->
     Slice(c, (b - 1) * batch_size, (b - 1) * batch_size + batch_size)]

OnFileIterBatches(o, f, batch_size) ==
  [b \in 1..NumBatches(OnFileLen(o), batch_size) |->
     LET ids == Slice(o.index.keys, (b - 1) * batch_size, (b - 1) * batch_size + batch_size)
     IN  [k \in 1..Len(ids) |-> OnFileGetItemId(o, f, ids[k]).val]]

\* ---------------------------------------------------------------- files
\* files: up to MaxLines lines, each a header or up to MaxLineLen symbols,
\* the lines of one file all ended by "\n" or all ended by "\r\n"
FileSymbols == {"A", GAP}
HeaderLines == {<<">">> \o id \o <<NL>> : id \in Ids}
ContentLines == {s \o <<NL>> : s \in SeqsUpTo(FileSymbols, MaxLineLen)}
Lines == HeaderLines \cup ContentLines
LfFiles == {Concat(ls) : ls \in SeqsUpTo(Lines, MaxLines)}

RECURSIVE CrLf(_)
CrLf(f) ==
  IF f = <<>> THEN <<>>
  ELSE (IF Head(f) = NL THEN <<CR, NL>> ELSE <<Head(f)>>) \o CrLf(Tail(f))

Files == LfFiles \cup {CrLf(f) : f \in LfFiles}

NoMapping == [held |-> FALSE, map |-> <<>>]

\* the iterations a caller has under way over a file-backed collection: none
NoIteration == [status |-> "none", pos |-> 0, handle |-> FALSE]
NoIters == [first |-> NoIteration, second |-> NoIteration]

\* ---------------------------------------------------------------- SpecFile
\* Both collection variants built from one file F; then accesses.
InitFile ==
  /\ file \in Files
  /\ onfile = OnFileInit(file)
  /\ seqs = from_fasta(file)
  /\ work = <<>>
  /\ mapping = NoMapping
  /\ op = "init"
  /\ arg = None
  /\ res = None
  /\ mafft_calls = 0
  /\ iters = NoIters

GetItemInt(i) ==
  /\ op' = "getitem_int"
  /\ arg' = Some(i)
  /\ res' = OnFileGetItemInt(onfile, file, i)
  /\ UNCHANGED <<iters, file, onfile, seqs, work, mapping, mafft_calls>>

GetItemId(id) ==
  /\ op' = "getitem_id"
  /\ arg' = Some(id)
  /\ res' = OnFileGetItemId(onfile, file, id)
  /\ UNCHANGED <<iters, file, onfile, seqs, work, mapping, mafft_calls>>

FileIterBatches(n) ==
  /\ op' = "onfile_iter_batches"
  /\ arg' = Some(n)
  /\ res' = Ok(OnFileIterBatches(onfile, file, n))
  /\ UNCHANGED <<iters, file, onfile, seqs, work, mapping, mafft_calls>>

MemIterBatches(n) ==
  /\ op' = "iter_batches"
  /\ arg' = Some(n)
  /\ res' = Ok(IterBatches(seqs, n))
  /\ UNCHANGED <<iters, file, onfile, seqs, work, mapping, mafft_calls>>

ToMemory ==
  /\ op' = "to_memory"
  /\ arg' = None
  /\ res' = Ok(to_memory(file))
  /\ UNCHANGED <<iters, file, onfile, seqs, work, mapping, mafft_calls>>

NextFile ==
  \/ \E i \in -1..MaxLines : GetItemInt(i)
  \/ \E id \in Ids \cup {AbsentId} : GetItemId(id)
  \/ \E n \in 1..MaxBatch : FileIterBatches(n)
  \/ \E n \in 1..MaxBatch : MemIterBatches(n)
  \/ ToMemory

SpecFile == InitFile /\ [][NextFile]_vars

\* ---------------------------------------------------------------- claims on SpecFile
InMemProps(c) ==
  [aligned |-> Aligned(c), fixed_length |-> FixedLength(c),
   width |-> Width(c), has_gaps |-> HasGaps(c)]

\* C1: the file-backed collection and the in-memory collection built from the
\* same file report the same aligned, fixed_length, width and has_gaps, and a
\* member reached by position or by identifier has the same content in both.
C1_VariantsAgree ==
  /\ onfile.props = InMemProps(seqs)
  /\ op = "getitem_int" /\ arg[1] >= 0 /\ arg[1] < Len(seqs)
       => res.err = "none" /\ res.val.seq = seqs[arg[1] + 1].seq
  /\ op = "getitem_id"
       => \A k \in 1..Len(seqs) :
            seqs[k].id = arg => res.err = "none" /\ res.val.seq = seqs[k].seq

Ceil(a, b) == (a + b - 1) \div b

\* the batches of `members` for batch size n, as the claim describes them
IsBatching(bs, members, n) ==
  /\ Len(bs) = Ceil(Len(members), n)
  /\ \A b \in 1..(Len(bs) - 1) : Len(bs[b]) = n
  /\ Len(bs) > 0 => Len(bs[Len(bs)]) >= 1 /\ Len(bs[Len(bs)]) <= n
  /\ Concat(bs) = members

OnFileMembers ==
  [i \in 1..OnFileLen(onfile) |-> OnFileGetItemInt(onfile, file, i - 1).val]

HeaderAt(f, h) == f[h] = ">" /\ (h = 1 \/ f[h - 1] = NL)

Least(S) == CHOOSE x \in S : \A y \in S : x <= y

C15_IndexEntries ==
  LET f == file
      headers == {h \in 1..Len(f) : HeaderAt(f, h)}
      lineEnd(h) == Least({e \in h..Len(f) : f[e] = NL} \cup {Len(f)})
      nextHeader(h) == Least({g \in headers : g > h} \cup {Len(f) + 1})
      idOf(h) == SelectSeq(SubSeq(f, h + 1, lineEnd(h) - 1), LAMBDA c : c # CR)
      region(h) == {j \in (lineEnd(h) + 1)..(nextHeader(h) - 1) : f[j] \notin {NL, CR}}
      idx == onfile.index
  IN  /\ {idx.keys[k] : k \in 1..Len(idx.keys)} = {idOf(h) : h \in headers}
      /\ \A k \in 1..Len(idx.keys) :
           \E h \in headers :
             /\ idOf(h) = idx.keys[k]
             /\ \A g \in headers : idOf(g) = idx.keys[k] => g <= h
             /\ idx.info[k].start = lineEnd(h)
             /\ idx.info[k].length = Cardinality(region(h))
             /\ idx.info[k].base_length = Cardinality({j \in region(h) : f[j] # GAP})
             /\ idx.info[k].has_gaps = (\E j \in region(h) : f[j] = GAP)

\* C18: for every file the reported length of the file-backed collection is
\* the number of sequences a full iteration yields, which is the number of
\* members of to_memory(), and access at each position i below the length
\* returns the content and identifier of the i-th sequence of the iteration.
C18_LenMatchesIteration ==
  op = "to_memory" =>
    /\ OnFileLen(onfile) = Len(res.val)
    /\ OnFileLen(onfile) = Len(OnFileIter(file))
    /\ \A i \in 0..(OnFileLen(onfile) - 1) :
         LET got == OnFileGetItemInt(onfile, file, i)
         IN  /\ got.err = "none"
             /\ got.val.seq = res.val[i + 1].seq
             /\ got.val.id = res.val[i + 1].id

\* ---------------------------------------------------------------- collections
\* Contents: every gap pattern up to MaxSeqLen, the residues being A, C, A, ...
\* in this order (no operation modelled here compares two residues).
ResidueAt(k) == IF k % 2 = 1 THEN "A" ELSE "C"

FillMask(mask) ==
  [i \in 1..Len(mask) |->
     IF mask[i] THEN GAP
     ELSE ResidueAt(Cardinality({j \in 1..i : ~mask[j]}))]

Contents == {FillMask(mask) : mask \in SeqsUpTo(BOOLEAN, MaxSeqLen)}

PlainMembers == {ProteinSequence(s, None, None) : s \in Contents}

Collections == SeqsUpTo(PlainMembers, MaxSeqs)

\* ---------------------------------------------------------------- the coordinate mapper
WithNoGaps(c) == [k \in 1..Len(c) |-> SeqWithNoGaps(c[k])]

\* (mutant) the position in the gap-free form is recorded, not the column
SeqMapping_OriginalPos(s, aligned_pos) ==
  [k \in 1..Len(SelectSeq(s, LAMBDA c : c \notin GAP_CHARACTERS)) |-> k - 1]

\* the inner loop of get_alignment_mapping: the zero-based columns of the
\* non-gap characters, left to right
RECURSIVE SeqMapping(_, _)
SeqMapping(s, aligned_pos) ==
  IF aligned_pos >= Len(s) THEN <<>>
  ELSE (IF s[aligned_pos + 1] \notin GAP_CHARACTERS THEN <<aligned_pos>> ELSE <<>>)
       \o SeqMapping(s, aligned_pos + 1)

\* a mapping is a dict: a function from member positions 0..n-1 to lists
get_alignment_mapping(c) ==
  IF ~Aligned(c)
  THEN Raise("ValueError", "Sequences must be aligned to create an alignment mapping.")
  ELSE Ok([i \in 0..(Len(c) - 1) |-> SeqMapping(c[i + 1].seq, 0)])

\* filter(None, seq_mapping): the entries that are truthy, so 0 is dropped
FilterNone(sm) == SelectSeq(sm, LAMBDA v : v # 0)

MaxOf(sm) == CHOOSE v \in Range(sm) : \A w \in Range(sm) : w <= v

\* the scatter loop: aligned_seq[aligned_pos] = seq[original_pos], in order
RECURSIVE Scatter(_, _, _, _)
Scatter(buf, sm, s, original_pos) ==
  IF original_pos >= Len(sm) THEN buf
  ELSE Scatter([buf EXCEPT ![sm[original_pos + 1] + 1] = s[original_pos + 1]],
               sm, s, original_pos + 1)

\* one turn of the loop of apply_alignment_mapping, for member i
ApplyMember(p, i, m) ==
  IF i \notin DOMAIN m
  THEN Raise("ValueError", "Sequence index not found in the alignment mapping.")
  ELSE LET sm == m[i]
       IN  IF FilterNone(sm) = <<>>
           THEN Raise("ValueError", "max() arg is an empty sequence")
           ELSE IF Len(sm) > Len(p.seq)
           THEN Raise("ValueError", "Invalid mapping: original position out of range.")
           ELSE Ok(ProteinSequence(
                     Scatter([k \in 1..(MaxOf(FilterNone(sm)) + 1) |-> "-"], sm, p.seq, 0),
                     p.id, p.structure))

RECURSIVE ApplyMembers(_, _, _, _)
ApplyMembers(c, i, m, done) ==
  IF i >= Len(c) THEN Ok(done)
  ELSE LET r == ApplyMember(c[i + 1], i, m)
       IN  IF r.err # "none" THEN r ELSE ApplyMembers(c, i + 1, m, Append(done, r.val))

apply_alignment_mapping(c, m) ==
  IF HasGaps(c)
  THEN Raise("ValueError", "Sequences already contain gaps.")
  ELSE ApplyMembers(c, 0, m, <<>>)

\* mappings a caller writes by hand: one list for every member, or for every
\* member but the last
GivenLists == {<<>>, <<0>>, <<1>>, <<0, 1>>, <<1, 0>>, <<1, 1>>, <<0, 2>>, <<0, 1, 2, 3>>}

GivenMappings(n) ==
  {[i \in K |-> l] : K \in {0..(n - 1), 0..(n - 2)}, l \in GivenLists}

\* ---------------------------------------------------------------- mutated positions
\* (mutant) a column counts as soon as it holds one symbol
IsMutatedColumn_AnySymbol(c, i) == Cardinality({p.seq[i + 1] : p \in Range(c)}) >= 1

\* chars = set(seq.get_protein_character(i) for seq in self); len(chars) > 1
IsMutatedColumn(c, i) == Cardinality({p.seq[i + 1] : p \in Range(c)}) > 1

\* the loop over range(len(self[0])), appending the columns in order
MutatedColumns(c) ==
  SelectSeq([k \in 1..Len(c[1].seq) |-> k - 1], LAMBDA i : IsMutatedColumn(c, i))

\* ProteinSequences.mutated_positions: the value returned and whether
\* warnings.warn was called
mutated_positions(c) ==
  IF ~Aligned(c) THEN [err |-> "none", val |-> None, warned |-> TRUE]
  ELSE IF c = <<>> THEN [err |-> "none", val |-> Some(<<>>), warned |-> FALSE]
  ELSE [err |-> "none", val |-> Some(MutatedColumns(c)), warned |-> FALSE]

\* ---------------------------------------------------------------- SpecMap
InitMap ==
  /\ seqs \in Collections
  /\ work = seqs
  /\ mapping = NoMapping
  /\ file = <<>>
  /\ onfile = None
  /\ op = "init"
  /\ arg = None
  /\ res = None
  /\ mafft_calls = 0
  /\ iters = NoIters

\* m = C.get_alignment_mapping()
GetAlignmentMapping ==
  /\ op' = "get_alignment_mapping"
  /\ arg' = None
  /\ res' = get_alignment_mapping(seqs)
  /\ mapping' = IF res'.err = "none" THEN [held |-> TRUE, map |-> res'.val] ELSE mapping
  /\ UNCHANGED <<iters, file, onfile, seqs, work, mafft_calls>>

\* work = C.with_no_gaps()
StripGaps ==
  /\ op' = "with_no_gaps"
  /\ arg' = None
  /\ work' = WithNoGaps(seqs)
  /\ res' = Ok(work')
  /\ UNCHANGED <<iters, file, onfile, seqs, mapping, mafft_calls>>

\* work.apply_alignment_mapping(m), m the mapping held
ApplyHeldMapping ==
  /\ mapping.held
  /\ op' = "apply_alignment_mapping"
  /\ arg' = mapping.map
  /\ res' = apply_alignment_mapping(work, mapping.map)
  /\ UNCHANGED <<iters, file, onfile, seqs, work, mapping, mafft_calls>>

\* C.apply_alignment_mapping(m), m written by the caller
ApplyGivenMapping(m) ==
  /\ op = "init"
  /\ op' = "apply_alignment_mapping"
  /\ arg' = m
  /\ res' = apply_alignment_mapping(work, m)
  /\ UNCHANGED <<iters, file, onfile, seqs, work, mapping, mafft_calls>>

\* C.mutated_positions
MutatedPositions ==
  /\ op' = "mutated_positions"
  /\ arg' = None
  /\ res' = mutated_positions(seqs)
  /\ UNCHANGED <<iters, file, onfile, seqs, work, mapping, mafft_calls>>

NextMap ==
  \/ GetAlignmentMapping
  \/ StripGaps
  \/ ApplyHeldMapping
  \/ \E m \in GivenMappings(Len(work)) : ApplyGivenMapping(m)
  \/ MutatedPositions

SpecMap == InitMap /\ [][NextMap]_vars


\* ---------------------------------------------------------------- claims on SpecMap
AppliedHeld == op = "apply_alignment_mapping" /\ mapping.held /\ arg = mapping.map

\* C2: for an aligned collection C, applying C.get_alignment_mapping() to
\* C.with_no_gaps() returns the members of C exactly, member for member
\* (stated here for the collections every member of which has a residue past
\* column 0, so that max() has an argument).
C2_DeriveStripApply ==
  (/\ AppliedHeld
   /\ work = WithNoGaps(seqs)
   /\ \A i \in DOMAIN arg : FilterNone(arg[i]) # <<>>)
  => res = Ok(seqs)

\* C3: for an aligned collection C without gaps, of any common length from 1
\* up, C.apply_alignment_mapping(C.get_alignment_mapping()) completes without
\* error and returns C member for member.
C3_GapFreeRoundTrip ==
  (/\ AppliedHeld
   /\ ~HasGaps(seqs)
   /\ work = seqs
   /\ Len(seqs[1].seq) >= 1)
  => res.err = "none" /\ res.val = seqs

LastAt(sm, col) == CHOOSE k \in 1..Len(sm) : sm[k] = col /\ \A j \in (k + 1)..Len(sm) : sm[j] # col

\* the buffer the claim describes for one member: max(columns) + 1 long, the
\* symbols at their mapped columns, gaps elsewhere
IsScattered(out, s, sm) ==
  /\ Len(out) = MaxOf(sm) + 1
  /\ \A col \in 0..MaxOf(sm) :
       out[col + 1] = IF col \in Range(sm) THEN s[LastAt(sm, col)] ELSE GAP

\* C9: apply_alignment_mapping fails when a member has a gap, when a member's
\* position is absent from the mapping, and when a member's list has more
\* entries than the member has symbols; in every other case each output member
\* is a gap-filled buffer of length max(mapped columns) + 1 with the k-th input
\* symbol at column mapping[i][k].
C9_ApplyCases ==
  op = "apply_alignment_mapping" =>
    LET n == Len(work)
    IN  IF HasGaps(work)
        THEN res.err = "ValueError" /\ res.msg = "Sequences already contain gaps."
        ELSE IF \E i \in 0..(n - 1) : i \notin DOMAIN arg
        THEN res.err # "none"
        ELSE IF \E i \in 0..(n - 1) : Len(arg[i]) > Len(work[i + 1].seq)
        THEN res.err # "none"
        ELSE IF \E i \in 0..(n - 1) : arg[i] = <<>>
        THEN TRUE
        ELSE /\ res.err = "none"
             /\ Len(res.val) = n
             /\ \A i \in 0..(n - 1) : IsScattered(res.val[i + 1].seq, work[i + 1].seq, arg[i])

StrictlyIncreasing(l) == \A j \in 1..(Len(l) - 1) : l[j] < l[j + 1]

\* C10: get_alignment_mapping fails when the collection is not aligned; for an
\* aligned collection it returns one list per member position 0..n-1, of length
\* base_length, strictly increasing, every value a column below the width that
\* holds a non-gap symbol, every other column holding a gap.
C10_MappingShape ==
  op = "get_alignment_mapping" =>
    IF ~Aligned(seqs)
    THEN res.err = "ValueError"
    ELSE /\ res.err = "none"
         /\ DOMAIN res.val = 0..(Len(seqs) - 1)
         /\ \A i \in 0..(Len(seqs) - 1) :
              LET l == res.val[i]
                  s == seqs[i + 1].seq
              IN  /\ Len(l) = BaseLength(seqs[i + 1])
                  /\ StrictlyIncreasing(l)
                  /\ \A j \in 1..Len(l) : l[j] >= 0 /\ l[j] < Width(seqs)[1] /\ s[l[j] + 1] # GAP
                  /\ \A col \in 0..(Len(s) - 1) : col \notin Range(l) => s[col + 1] = GAP

C10_Witness ==
  /\ op = "get_alignment_mapping"
  /\ res.err = "none"
  /\ Len(seqs) = 2
  /\ HasGaps(seqs)
  /\ \E i \in 0..1 : Len(res.val[i]) = 2 /\ res.val[i][1] + 1 < res.val[i][2]


\* C12: on a non-empty aligned collection mutated_positions returns, in
\* increasing order and without warning, exactly the columns where the members
\* show more than one symbol; on one that is not aligned it warns and returns
\* no value.
C12_MutatedPositions ==
  op = "mutated_positions" /\ seqs # <<>> =>
    LET n == Len(seqs)
        sameLen == \A i, j \in 1..n : Len(seqs[i].seq) = Len(seqs[j].seq)
        differ(col) == \E i, j \in 1..n : seqs[i].seq[col + 1] # seqs[j].seq[col + 1]
    IN  IF sameLen
        THEN /\ res.val # None
             /\ ~res.warned
             /\ LET cols == res.val[1]
                IN  /\ \A a, b \in 1..Len(cols) : a < b => cols[a] < cols[b]
                    /\ {cols[a] : a \in 1..Len(cols)}
                         = {col \in 0..(Len(seqs[1].seq) - 1) : differ(col)}
        ELSE res.val = None /\ res.warned

C12_Witness ==
  /\ op = "mutated_positions"
  /\ Len(seqs) = 2
  /\ Len(seqs[1].seq) = 3
  /\ Len(seqs[2].seq) = 3
  /\ seqs[1].seq[1] = seqs[2].seq[1]
  /\ res.val = Some(<<1, 2>>)
  /\ ~res.warned

\* C17: on an empty collection mutated_positions returns the empty list, not
\* the absent value, and does not warn.
C17_EmptyMutatedPositions ==
  op = "mutated_positions" /\ seqs = <<>> =>
    res.val = Some(<<>>) /\ ~res.warned

\* C19: whenever apply_alignment_mapping returns a collection, taking the gaps
\* out of output member i gives input member i symbol for symbol, and output
\* member i has input member i's identifier and structure.
C19_ApplyKeepsSymbols ==
  op = "apply_alignment_mapping" /\ res.err = "none" =>
    /\ Len(res.val) = Len(work)
    /\ \A i \in 1..Len(work) :
         /\ SelectSeq(res.val[i].seq, LAMBDA c : c # GAP) = work[i].seq
         /\ res.val[i].id = work[i].id
         /\ res.val[i].structure = work[i].structure

\* ---------------------------------------------------------------- alignment calls
\* mafft_align: the external aligner; it returns a collection or fails
MafftAligned == "collection returned by mafft_align"

MafftOutcomes ==
  {Ok(MafftAligned),
   Raise("RuntimeError", "MAFFT alignment failed"),
   Raise("FileNotFoundError", "MAFFT is not installed")}

mafft_align(outcome) == [res |-> outcome, calls |-> 1]

\* (mutant) the aligner is called whatever the receiver holds
align_all_NoGuard(c, outcome) == mafft_align(outcome)

align_all(c, outcome) ==
  IF HasGaps(c)
  THEN [res |-> Raise("ValueError", "Sequences already contain gaps."), calls |-> 0]
  ELSE mafft_align(outcome)

align_to(c, existing_aligned, outcome) ==
  IF HasGaps(c)
  THEN [res |-> Raise("ValueError", "Sequences already contain gaps."), calls |-> 0]
  ELSE IF ~existing_aligned
  THEN [res |-> Raise("ValueError", "Existing alignment must be aligned."), calls |-> 0]
  ELSE mafft_align(outcome)

\* the existing alignments handed to align_to: empty, one member, two members
\* of different lengths, two members of one length
Targets ==
  {<<>>,
   <<ProteinSequence(<<"A">>, None, None)>>,
   <<ProteinSequence(<<"A">>, None, None), ProteinSequence(<<"A", "C">>, None, None)>>,
   <<ProteinSequence(<<"A", "-">>, None, None), ProteinSequence(<<"A", "C">>, None, None)>>}

\* ---------------------------------------------------------------- SpecAlign
AlignAll(outcome) ==
  /\ op' = "align_all"
  /\ arg' = [outcome |-> outcome]
  /\ res' = align_all(seqs, outcome).res
  /\ mafft_calls' = align_all(seqs, outcome).calls
  /\ UNCHANGED <<iters, file, onfile, seqs, work, mapping>>

AlignTo(target, outcome) ==
  /\ op' = "align_to"
  /\ arg' = [outcome |-> outcome, target |-> target]
  /\ res' = align_to(seqs, Aligned(target), outcome).res
  /\ mafft_calls' = align_to(seqs, Aligned(target), outcome).calls
  /\ UNCHANGED <<iters, file, onfile, seqs, work, mapping>>

NextAlign ==
  \/ \E outcome \in MafftOutcomes : AlignAll(outcome)
  \/ \E target \in Targets, outcome \in MafftOutcomes : AlignTo(target, outcome)

SpecAlign == InitMap /\ [][NextAlign]_vars

\* C8: align_all and align_to fail with ValueError, the aligner not called,
\* when a member of the receiver has a gap; align_to fails likewise when the
\* target is not aligned; otherwise the aligner is called exactly once and its
\* result or failure is what the caller gets.
C8_AlignGuards ==
  /\ op = "align_all" =>
       IF HasGaps(seqs)
       THEN res.err = "ValueError" /\ mafft_calls = 0
       ELSE res = arg.outcome /\ mafft_calls = 1
  /\ op = "align_to" =>
       IF HasGaps(seqs) \/ ~Aligned(arg.target)
       THEN res.err = "ValueError" /\ mafft_calls = 0
       ELSE res = arg.outcome /\ mafft_calls = 1

C8_Witness ==
  /\ op = "align_to"
  /\ ~HasGaps(seqs)
  /\ Len(seqs) = 2
  /\ ~Aligned(arg.target)
  /\ arg.outcome.err = "none"
  /\ res.err = "ValueError"
  /\ mafft_calls = 0


\* ---------------------------------------------------------------- mutate
Structures == {None, Some("structure.pdb")}

\* (mutant) the identifier is carried over to the result
mutate_KeepsId(p, position, new_character) ==
  IF position < 0 \/ position >= Len(p.seq)
  THEN Raise("ValueError", "Position out of range")
  ELSE Ok(ProteinSequence(
            Slice(p.seq, 0, position) \o <<new_character>>
              \o Slice(p.seq, position + 1, Len(p.seq)),
            p.id, p.structure))

mutate(p, position, new_character) ==
  IF position < 0 \/ position >= Len(p.seq)
  THEN Raise("ValueError", "Position out of range")
  ELSE Ok(ProteinSequence(
            Slice(p.seq, 0, position) \o <<new_character>>
              \o Slice(p.seq, position + 1, Len(p.seq)),
            None, p.structure))

\* ---------------------------------------------------------------- SpecSeq
\* One sequence S, held as the only member of seqs; work keeps what S was.
InitSeq ==
  /\ \E s \in Contents, id \in {None, Some(<<"a">>)}, st \in Structures :
       seqs = <<ProteinSequence(s, id, st)>>
  /\ work = seqs
  /\ mapping = NoMapping
  /\ file = <<>>
  /\ onfile = None
  /\ op = "init"
  /\ arg = None
  /\ res = None
  /\ mafft_calls = 0
  /\ iters = NoIters

Mutate(position, new_character) ==
  /\ op' = "mutate"
  /\ arg' = [position |-> position, new_character |-> new_character]
  /\ res' = mutate(seqs[1], position, new_character)
  /\ UNCHANGED <<iters, file, onfile, seqs, work, mapping, mafft_calls>>

NextSeq == \E position \in -1..MaxSeqLen, c \in Symbols : Mutate(position, c)

SpecSeq == InitSeq /\ [][NextSeq]_vars

SymbolCode(c) == IF c = "A" THEN 1 ELSE IF c = "C" THEN 2 ELSE 3

RECURSIVE HashChars(_, _)
HashChars(s, h) == IF s = <<>> THEN h ELSE HashChars(Tail(s), 4 * h + SymbolCode(Head(s)))

PyHash(p) == HashChars(p.seq, 1)

\* str(n) for n >= 0
Digits == <<"0", "1", "2", "3", "4", "5", "6", "7", "8", "9">>

RECURSIVE DecStr(_)
DecStr(n) == IF n < 10 THEN <<Digits[n + 1]>> ELSE DecStr(n \div 10) \o <<Digits[(n % 10) + 1]>>

\* (mutant) the hash is written whether or not there is an identifier
ExportId_AlwaysHash(p) == DecStr(PyHash(p))

\* seq.id or hash(seq): an absent or empty identifier gives way to the hash
ExportId(p) == IF p.id # None /\ p.id[1] # <<>> THEN p.id[1] ELSE DecStr(PyHash(p))

\* write_fasta: one header line and one content line per record
RECURSIVE write_fasta(_)
write_fasta(recs) ==
  IF recs = <<>> THEN <<>>
  ELSE <<">">> \o Head(recs).id \o <<NL>> \o Head(recs).seq \o <<NL>> \o write_fasta(Tail(recs))

to_fasta(c) == write_fasta([k \in 1..Len(c) |-> [id |-> ExportId(c[k]), seq |-> c[k].seq]])

\* ---------------------------------------------------------------- SpecFasta
FastaMembers == {ProteinSequence(s, id, None) : s \in Contents, id \in {None, Some(<<"a">>)}}

InitFasta ==
  /\ seqs \in SeqsUpTo(FastaMembers, MaxSeqs)
  /\ work = seqs
  /\ mapping = NoMapping
  /\ file = <<>>
  /\ onfile = None
  /\ op = "init"
  /\ arg = None
  /\ res = None
  /\ mafft_calls = 0
  /\ iters = NoIters

\* C.to_fasta(path)
ToFasta ==
  /\ op = "init"
  /\ op' = "to_fasta"
  /\ file' = to_fasta(seqs)
  /\ res' = None
  /\ UNCHANGED <<iters, onfile, seqs, work, mapping, arg, mafft_calls>>

\* ProteinSequences.from_fasta(path), of the file written
FromFasta ==
  /\ op = "to_fasta"
  /\ op' = "from_fasta"
  /\ res' = Ok(from_fasta(file))
  /\ UNCHANGED <<iters, file, onfile, seqs, work, mapping, arg, mafft_calls>>

NextFasta == ToFasta \/ FromFasta

SpecFasta == InitFasta /\ [][NextFasta]_vars

\* C5 as stated: to_fasta then from_fasta gives as many members, in the same
\* order, each with the content and the identifier of the member written.
C5_RoundTripIds ==
  op = "from_fasta" =>
    /\ Len(res.val) = Len(seqs)
    /\ \A k \in 1..Len(seqs) :
         res.val[k].seq = seqs[k].seq /\ res.val[k].id = seqs[k].id

\* C5 (amended): to_fasta then from_fasta gives as many members, in the same
\* order, each with the content of the member written; its identifier is
\* that of the member written when it had one, the decimal text of its hash
\* when it had none.
C5_RoundTrip ==
  op = "from_fasta" =>
    /\ Len(res.val) = Len(seqs)
    /\ \A k \in 1..Len(seqs) :
         /\ res.val[k].seq = seqs[k].seq
         /\ seqs[k].id # None => res.val[k].id = seqs[k].id
         /\ seqs[k].id = None => res.val[k].id = Some(DecStr(PyHash(seqs[k])))

C5_Witness ==
  /\ op = "from_fasta"
  /\ Len(seqs) = 2
  /\ seqs[1].id = None
  /\ seqs[2].id # None
  /\ HasGaps(seqs)
  /\ seqs[1].seq # seqs[2].seq


\* ---------------------------------------------------------------- SpecEdit
\* An in-memory collection whose membership changes through the list methods
\* it inherits; work keeps the members it was built with.
EditMembers ==
  {ProteinSequence(s, None, None) :
     s \in {<<>>, <<"A">>, <<"A", "-">>, <<"A", "C">>, <<"-", "A", "C">>}}

InitEdit ==
  /\ seqs \in SeqsUpTo(EditMembers, MaxSeqs)
  /\ work = seqs
  /\ mapping = NoMapping
  /\ file = <<>>
  /\ onfile = None
  /\ op = "init"
  /\ arg = None
  /\ res = None
  /\ mafft_calls = 0
  /\ iters = NoIters

\* list.insert(i, item) for 0 <= i <= len
ListInsert(c, i, item) == Slice(c, 0, i) \o <<item>> \o Slice(c, i, Len(c))

\* del list[i] for 0 <= i < len
ListDelete(c, i) == Slice(c, 0, i) \o Slice(c, i + 1, Len(c))

EditAppend(item) ==
  /\ Len(seqs) < MaxSeqs
  /\ op' = "append"
  /\ seqs' = Append(seqs, item)
  /\ res' = None
  /\ UNCHANGED <<iters, file, onfile, work, mapping, arg, mafft_calls>>

EditInsert(i, item) ==
  /\ Len(seqs) < MaxSeqs
  /\ i <= Len(seqs)
  /\ op' = "insert"
  /\ seqs' = ListInsert(seqs, i, item)
  /\ res' = None
  /\ UNCHANGED <<iters, file, onfile, work, mapping, arg, mafft_calls>>

EditRemove(i) ==
  /\ i < Len(seqs)
  /\ op' = "remove"
  /\ seqs' = ListDelete(seqs, i)
  /\ res' = None
  /\ UNCHANGED <<iters, file, onfile, work, mapping, arg, mafft_calls>>

EditReplace(i, item) ==
  /\ i < Len(seqs)
  /\ op' = "replace"
  /\ seqs' = [seqs EXCEPT ![i + 1] = item]
  /\ res' = None
  /\ UNCHANGED <<iters, file, onfile, work, mapping, arg, mafft_calls>>

\* the four aggregate properties, read one after the other
ReadProperties ==
  /\ op' = "properties"
  /\ res' = Ok([aligned |-> Aligned(seqs), fixed_length |-> FixedLength(seqs),
                width |-> Width(seqs), has_gaps |-> HasGaps(seqs)])
  /\ UNCHANGED <<iters, file, onfile, seqs, work, mapping, arg, mafft_calls>>

NextEdit ==
  \/ \E item \in EditMembers : EditAppend(item)
  \/ \E i \in 0..MaxSeqs, item \in EditMembers : EditInsert(i, item)
  \/ \E i \in 0..MaxSeqs : EditRemove(i)
  \/ \E i \in 0..MaxSeqs, item \in EditMembers : EditReplace(i, item)
  \/ ReadProperties

SpecEdit == InitEdit /\ [][NextEdit]_vars

\* C11: after any membership changes that leave the collection non-empty,
\* aligned is true exactly when all current members have one total length,
\* fixed_length exactly when they have one base length, has_gaps exactly when
\* one of them holds a gap, and width is the common total length when aligned
\* and absent otherwise.
C11_PropertiesCurrent ==
  op = "properties" /\ seqs # <<>> =>
    LET n == Len(seqs)
        sameLen == \A i, j \in 1..n : Len(seqs[i].seq) = Len(seqs[j].seq)
        sameBase ==
          \A i, j \in 1..n :
            Len(SelectSeq(seqs[i].seq, LAMBDA c : c # GAP))
              = Len(SelectSeq(seqs[j].seq, LAMBDA c : c # GAP))
        anyGap == \E i \in 1..n : \E k \in 1..Len(seqs[i].seq) : seqs[i].seq[k] = GAP
    IN  /\ res.val.aligned = sameLen
        /\ res.val.fixed_length = sameBase
        /\ res.val.has_gaps = anyGap
        /\ res.val.width = IF sameLen THEN Some(Len(seqs[1].seq)) ELSE None

C11_Witness ==
  /\ op = "properties"
  /\ seqs # work
  /\ Len(seqs) = 2
  /\ Aligned(work)
  /\ ~res.val.aligned
  /\ res.val.fixed_length
  /\ res.val.has_gaps
  /\ res.val.width = None


\* ---------------------------------------------------------------- SpecIter
\* Two iterations over one file-backed collection, stepped by the caller in
\* any order and interleaved with member access. Each iteration is a generator:
\* "new" before its first step, "open" while suspended at a yield inside the
\* with-block, "done" once exhausted, "abandoned" when the caller stops
\* stepping it, "closed" once the abandoned generator has been finalised.
IterNames == {"first", "second"}

\* the files iterated: up to MaxLines lines, each a header or the content "A"
IterFiles == {Concat(ls) : ls \in SeqsUpTo(HeaderLines \cup {<<"A", NL>>}, MaxLines)}

InitIter ==
  /\ file \in IterFiles
  /\ onfile = OnFileInit(file)
  /\ seqs = <<>>
  /\ work = <<>>
  /\ mapping = NoMapping
  /\ op = "init"
  /\ arg = None
  /\ res = None
  /\ mafft_calls = 0
  /\ iters = NoIters

\* (mutant) one handle kept by the collection serves every iteration
Cursor_Shared(its, k) == its.first.pos + its.second.pos

\* each iteration reads through the handle it opened itself
Cursor(its, k) == its[k].pos

\* iter(C): the generator is created, its body has not run
IterStart(k) ==
  /\ iters[k].status \in {"none", "done", "closed"}
  /\ k = "second" => iters.first.status # "none"
  /\ iters' = [iters EXCEPT ![k] = [status |-> "new", pos |-> 0, handle |-> FALSE]]
  /\ op' = "iter"
  /\ arg' = Some(k)
  /\ res' = None
  /\ UNCHANGED <<file, onfile, seqs, work, mapping, mafft_calls>>

\* next(it): the first step opens the file; a step yields the next record or,
\* past the last one, leaves the with-block and stops
IterNext(k) ==
  /\ iters[k].status \in {"new", "open"}
  /\ LET recs == OnFileIter(file)
         n == Cursor(iters, k)
     IN  IF n < Len(recs)
         THEN /\ iters' = [iters EXCEPT ![k] = [status |-> "open", pos |-> @.pos + 1,
                                                handle |-> TRUE]]
              /\ res' = Ok(recs[n + 1])
         ELSE /\ iters' = [iters EXCEPT ![k] = [status |-> "done", pos |-> @.pos,
                                                handle |-> FALSE]]
              /\ res' = Raise("StopIteration", "")
  /\ op' = "next"
  /\ arg' = Some(k)
  /\ UNCHANGED <<file, onfile, seqs, work, mapping, mafft_calls>>

\* the caller stops stepping an iteration before its end (break, or the
\* iterator set aside): the generator stays suspended inside the with-block
IterAbandon(k) ==
  /\ iters[k].status = "open"
  /\ iters' = [iters EXCEPT ![k].status = "abandoned"]
  /\ op' = "abandon"
  /\ arg' = Some(k)
  /\ res' = None
  /\ UNCHANGED <<file, onfile, seqs, work, mapping, mafft_calls>>

\* the abandoned generator is finalised (closed or collected): the with-block
\* is left and the handle closed
IterFinalize(k) ==
  /\ iters[k].status = "abandoned"
  /\ iters' = [iters EXCEPT ![k] = [status |-> "closed", pos |-> @.pos,
                                    handle |-> FALSE]]
  /\ op' = "finalize"
  /\ arg' = Some(k)
  /\ res' = None
  /\ UNCHANGED <<file, onfile, seqs, work, mapping, mafft_calls>>

NextIter ==
  \/ \E k \in IterNames : IterStart(k)
  \/ \E k \in IterNames : IterNext(k)
  \/ \E k \in IterNames : IterAbandon(k)
  \/ \E k \in IterNames : IterFinalize(k)
  \/ \E i \in -1..MaxLines : GetItemInt(i)

SpecIter == InitIter /\ [][NextIter]_vars

\* C13: whatever second iteration or member access is interleaved, the j-th
\* step of an iteration yields the j-th record of the file, the step after the
\* last record ends it, and a member access returns what it returns on a
\* collection with no iteration under way.
C13_IterationIndependent ==
  /\ op = "next" =>
       LET recs == read_fasta(file)
           j == iters[arg[1]].pos
       IN  IF res.err = "none"
           THEN /\ j \in 1..Len(recs)
                /\ res.val.seq = recs[j].seq
                /\ res.val.id = Some(recs[j].id)
           ELSE j = Len(recs) /\ iters[arg[1]].status = "done"
  /\ op = "getitem_int" => res = OnFileGetItemInt(OnFileInit(file), file, arg[1])

C13_Witness ==
  /\ op = "next"
  /\ arg = Some("first")
  /\ iters.first.pos = 2
  /\ iters.second.status = "open"
  /\ iters.second.pos = 1
  /\ res.err = "none"
  /\ res.val # OnFileIter(file)[1]

\* C14: whenever no iteration is under way (none started, or each one
\* exhausted or abandoned), the collection holds no open file handle.
C14_NoHandleAtRest ==
  (\A k \in IterNames : iters[k].status \notin {"new", "open"})
    => \A k \in IterNames : ~iters[k].handle


\* ---------------------------------------------------------------- SpecFrame
\* A file-backed collection after construction: its public operations, the
\* list mutator it inherits, and changes made to the file by others.

\* {id: str(self[id]) for id in self._index}, in key order
OnFileToDict(o, f) ==
  [k \in 1..Len(o.index.keys) |->
     [id |-> o.index.keys[k], seq |-> ReadMember(o, f, o.index.keys[k]).val.seq]]

\* the text to_fasta writes to output_path
OnFileToFasta(o, f) == write_fasta(OnFileToDict(o, f))

\* ProteinSequencesOnFile.mutated_positions: one set per column of the stored
\* width, filled from an iteration over the file
OnFileMutatedPositions(o, f) ==
  IF ~o.props.aligned THEN Ok(None)
  ELSE LET w == o.props.width[1]
           ms == OnFileIter(f)
           chars(i) == {ms[k].seq[i + 1] : k \in {j \in 1..Len(ms) : Len(ms[j].seq) > i}}
       IN  IF \E k \in 1..Len(ms) : Len(ms[k].seq) > w
           THEN Raise("IndexError", "list index out of range")
           ELSE Ok(Some(SelectSeq([k \in 1..w |-> k - 1],
                                  LAMBDA i : Cardinality(chars(i)) > 1)))

\* (mutant) append also enters the new member in the index
OnFileAppend_Indexed(o, item) ==
  [o EXCEPT !.data = Append(@, item),
            !.index = IndexPut(@, item.id[1],
                               [start |-> 0, length |-> Len(item.seq),
                                has_gaps |-> SeqHasGaps(item),
                                base_length |-> BaseLength(item)])]

\* the inherited list.append: the member goes to self.data
OnFileAppend(o, item) == [o EXCEPT !.data = Append(@, item)]

AppendedMember == ProteinSequence(<<"A", GAP>>, Some(AbsentId), None)

\* what another writer puts at the end of the file
AddedRecord == <<">">> \o AbsentId \o <<NL, "A", NL>>

FileToDict ==
  /\ op' = "to_dict"
  /\ arg' = None
  /\ res' = Ok(OnFileToDict(onfile, file))
  /\ UNCHANGED <<iters, file, onfile, seqs, work, mapping, mafft_calls>>

FileToFasta ==
  /\ op' = "to_fasta"
  /\ arg' = None
  /\ res' = Ok(OnFileToFasta(onfile, file))
  /\ UNCHANGED <<iters, file, onfile, seqs, work, mapping, mafft_calls>>

FileMutatedPositions ==
  /\ op' = "mutated_positions"
  /\ arg' = None
  /\ res' = OnFileMutatedPositions(onfile, file)
  /\ UNCHANGED <<iters, file, onfile, seqs, work, mapping, mafft_calls>>

FileAppend(item) ==
  /\ onfile.data = <<>>
  /\ op' = "append"
  /\ arg' = None
  /\ res' = None
  /\ onfile' = OnFileAppend(onfile, item)
  /\ UNCHANGED <<iters, file, seqs, work, mapping, mafft_calls>>

\* the file is emptied, or a record is added at its end, by another writer
FileChange(f) ==
  /\ f # file
  /\ Len(FileLines(f)) <= MaxLines + Len(FileLines(AddedRecord))
  /\ op' = "file_change"
  /\ arg' = None
  /\ res' = None
  /\ file' = f
  /\ UNCHANGED <<iters, onfile, seqs, work, mapping, mafft_calls>>

NextFrame ==
  \/ \E i \in -1..MaxLines : GetItemInt(i)
  \/ \E id \in Ids : GetItemId(id)
  \/ \E n \in 1..MaxBatch : FileIterBatches(n)
  \/ ToMemory
  \/ FileToDict
  \/ FileToFasta
  \/ FileMutatedPositions
  \/ FileAppend(AppendedMember)
  \/ \E f \in {<<>>, file \o AddedRecord} : FileChange(f)

SpecFrame == InitIter /\ [][NextFrame]_vars

\* C16: no operation after construction changes the index, the length
\* reported, or the stored aligned, fixed_length, width and has_gaps; they
\* stay what construction computed, also when the file changes.
C16_IndexFrozen ==
  [][/\ onfile'.index = onfile.index
     /\ OnFileLen(onfile') = OnFileLen(onfile)
     /\ onfile'.props = onfile.props]_vars

C16_Witness ==
  /\ op = "getitem_int"
  /\ res.err = "none"
  /\ onfile.data # <<>>
  /\ file # <<>>
  /\ onfile.index # _create_index(file)
  /\ OnFileLen(onfile) = 2
  /\ onfile.props.aligned

====
